---- MODULE Spec2Model ----
(***************************************************************************)
(* Verification model of the LDrawy rendering helpers:                     *)
(*   - ShapeBatch (src/src/lib.rs): vertex / index accumulation and bake   *)
(*   - Window event loop and exit_request (src/src/lib.rs)                 *)
(*   - Brush (src/src/render/brush.rs): bind / update / cached pipeline    *)
(*   - Texture (src/src/render/texture.rs): queued texture writes          *)
(* The process is single threaded; a panic stops it (variable panicked).   *)
(***************************************************************************)
EXTENDS Integers, Sequences, FiniteSets

VARIABLES
    vertices,       \* ShapeBatch.vertices : Vec<Vertex>
    indices,        \* ShapeBatch.indices  : Vec<u32>
    shape_buffer,   \* Option<ShapeBuffer> produced by bake_buffers (<<>> = not baked)
    calls,          \* history: one record per add_* call, what it appended where
    assets_to_bind,     \* Brush.assets_to_bind : HashMap<u32, Binder>
    cached_pipeline,    \* Brush.cached_pipeline : Option<RenderPipeline>
    cached_bindings,    \* Brush.cached_bindings : Vec<(u32, BindGroup)>
    needs_update,       \* Brush.needs_update : bool
    pipelines_created,  \* device: render pipelines created so far
    modified,           \* history: bind called since the last update, or never updated
    last_op,            \* history: the last Brush operation called
    ret,                \* value returned by the last Brush getter
    texture,            \* Option<Texture> : the texture created by Texture::new
    write_queue,        \* gpu.queue : texture writes queued, oldest first
    frame_count,        \* Window.frame_count : u64
    delta_time,         \* Window.delta_time, in milliseconds
    flow,               \* the event loop's ControlFlow
    last_ev,            \* Option<Event> : the event the loop handled last
    exit_ret,           \* outcome of the last Window::exit_request call
    user_call,          \* the UserWindowHandler callback run last
    panicked        \* the thread has panicked (unwrap on None)

batchVars == <<vertices, indices, shape_buffer, calls>>
brushVars == <<assets_to_bind, cached_pipeline, cached_bindings, needs_update,
               pipelines_created, modified, last_op, ret>>
textureVars == <<texture, write_queue>>
windowVars == <<frame_count, delta_time, flow, last_ev, exit_ret, user_call>>
vars == <<batchVars, brushVars, textureVars, windowVars, panicked>>

\* ---------------------------------------------------------------- bounds
MaxShapes == 3          \* add_* calls made on one batch
MaxGroup == 2           \* largest group index handed to Brush::bind
MaxPipelines == 2       \* render pipelines the device creates
MaxDim == 2             \* largest texture extent per axis
MaxQueue == 2           \* texture writes queued
MaxFrames == 4          \* events the loop handles
MaxElapsed == 17        \* longest frame, in milliseconds

\* ---------------------------------------------------------------- ShapeBatch
\* Vertex::from_viewport
from_viewport(x, y) == [pos |-> <<x, y>>]

\* Vertex::x / Vertex::y
VX(v) == v.pos[1]
VY(v) == v.pos[2]

\* Triangles and squares handed to the batch.  Square extents are even so
\* that w / 2.0 and h / 2.0 are exact in the integer grid used here.
TriangleInputs ==
    { <<from_viewport(-1, -1), from_viewport(1, -1), from_viewport(0, 1)>>,
      <<from_viewport(0, 0), from_viewport(2, 0), from_viewport(2, 2)>> }

SquareInputs ==
    { [c |-> from_viewport(0, 0), w |-> 2, h |-> 2],
      [c |-> from_viewport(1, -1), w |-> 4, h |-> 2] }

\* ShapeBatch::default
BatchInit ==
    /\ vertices = <<>>
    /\ indices = <<>>
    /\ shape_buffer = <<>>
    /\ calls = <<>>

\* ShapeBatch::add_triangle
add_triangle(v) ==
    /\ ~panicked
    /\ shape_buffer = <<>>
    /\ Len(calls) < MaxShapes
    /\ LET index == Len(indices)   \* as u32: exact, the length is far below 2^32
       IN /\ vertices' = vertices \o <<v[1], v[2], v[3]>>
          /\ indices' = indices \o <<index, index + 1, index + 2>>
    /\ calls' = Append(calls, [kind |-> "triangle",
                               vfirst |-> Len(vertices),
                               ifirst |-> Len(indices) + 1])
    /\ UNCHANGED <<shape_buffer, brushVars, textureVars, windowVars, panicked>>

\* add_square with the repeated corner index left out (five indices pushed)
add_square_short(c, w, h) ==
    /\ ~panicked
    /\ shape_buffer = <<>>
    /\ Len(calls) < MaxShapes
    /\ LET hw == w \div 2
           hh == h \div 2
           index == Len(indices)
       IN /\ vertices' = vertices \o
                <<from_viewport(VX(c) - hw, VY(c) - hh),
                  from_viewport(VX(c) + hw, VY(c) - hh),
                  from_viewport(VX(c) - hw, VY(c) + hh),
                  from_viewport(VX(c) + hw, VY(c) + hh)>>
          /\ indices' = indices \o
                <<index, index + 1, index + 2, index + 1, index + 3>>
    /\ calls' = Append(calls, [kind |-> "square",
                               vfirst |-> Len(vertices),
                               ifirst |-> Len(indices) + 1])
    /\ UNCHANGED <<shape_buffer, brushVars, textureVars, windowVars, panicked>>

\* ShapeBatch::add_square
add_square(c, w, h) ==
    /\ ~panicked
    /\ shape_buffer = <<>>
    /\ Len(calls) < MaxShapes
    /\ LET hw == w \div 2
           hh == h \div 2
           \* indices.len() is read after the four vertex pushes
           index == Len(indices)
       IN /\ vertices' = vertices \o
                <<from_viewport(VX(c) - hw, VY(c) - hh),
                  from_viewport(VX(c) + hw, VY(c) - hh),
                  from_viewport(VX(c) - hw, VY(c) + hh),
                  from_viewport(VX(c) + hw, VY(c) + hh)>>
          /\ indices' = indices \o
                <<index, index + 1, index + 2,
                  index + 2, index + 1, index + 3>>
    /\ calls' = Append(calls, [kind |-> "square",
                               vfirst |-> Len(vertices),
                               ifirst |-> Len(indices) + 1])
    /\ UNCHANGED <<shape_buffer, brushVars, textureVars, windowVars, panicked>>

\* ShapeBatch::bake_buffers (consumes the batch)
bake_buffers ==
    /\ ~panicked
    /\ shape_buffer = <<>>
    /\ shape_buffer' = <<[vertex_buffer |-> vertices,
                          index_buffer |-> [primitive |-> "TrianglesList",
                                            data |-> indices]]>>
    /\ UNCHANGED <<vertices, indices, calls, brushVars, textureVars, windowVars, panicked>>

AddTriangle == \E v \in TriangleInputs : add_triangle(v)
AddSquare == \E s \in SquareInputs : add_square(s.c, s.w, s.h)

NextBatch == AddTriangle \/ AddSquare \/ bake_buffers


\* ---------------------------------------------------------------- Brush
Groups == 0..MaxGroup
Locs == {0}
Assets == {"texture", "sampler"}

None == <<>>
Some(x) == <<x>>

EmptyMap == [k \in {} |-> 0]
MapPut(m, k, v) == [x \in (DOMAIN m) \cup {k} |-> IF x = k THEN v ELSE m[x]]

\* Binder::new
BinderNew == EmptyMap

\* Binder::bind : the asset takes the slot loc_index
BinderBind(binder, loc_index, asset) == MapPut(binder, loc_index, asset)

\* Binder::bake : (bind group layout, bind group) of the assets bound
BinderBake(binder) ==
    [bgl |-> [entries |-> DOMAIN binder],
     bg |-> [entries |-> binder]]

\* The orders in which HashMap::iter may visit the keys S
IterOrders(S) ==
    { f \in [1..Cardinality(S) -> S] :
        \A i, j \in 1..Cardinality(S) : i # j => f[i] # f[j] }

\* Vec::sort_by on the group index (keys are distinct)
RECURSIVE InsertSorted(_, _)
InsertSorted(sorted, x) ==
    IF sorted = <<>> THEN <<x>>
    ELSE IF x[1] < Head(sorted)[1] THEN <<x>> \o sorted
    ELSE <<Head(sorted)>> \o InsertSorted(Tail(sorted), x)

RECURSIVE SortByGroup(_)
SortByGroup(s) ==
    IF s = <<>> THEN <<>>
    ELSE InsertSorted(SortByGroup(SubSeq(s, 1, Len(s) - 1)), s[Len(s)])

\* Brush::from_source
BrushInit ==
    /\ assets_to_bind = EmptyMap
    /\ cached_bindings = <<>>
    /\ cached_pipeline = None
    /\ needs_update = TRUE
    /\ pipelines_created = 0
    /\ modified = TRUE
    /\ last_op = "from_source"
    /\ ret = None

\* bind that leaves the dirty flag as it was
bind_no_flag(group_index, loc_index, asset) ==
    /\ ~panicked
    /\ assets_to_bind' =
         IF group_index \in DOMAIN assets_to_bind
         THEN [assets_to_bind EXCEPT
                 ![group_index] = BinderBind(@, loc_index, asset)]
         ELSE MapPut(assets_to_bind, group_index,
                     BinderBind(BinderNew, loc_index, asset))
    /\ modified' = TRUE
    /\ last_op' = "bind"
    /\ ret' = None
    /\ UNCHANGED <<cached_pipeline, cached_bindings, pipelines_created,
                   needs_update, batchVars, textureVars, windowVars, panicked>>

\* Brush::bind
bind(group_index, loc_index, asset) ==
    /\ ~panicked
    /\ assets_to_bind' =
         IF group_index \in DOMAIN assets_to_bind
         THEN [assets_to_bind EXCEPT
                 ![group_index] = BinderBind(@, loc_index, asset)]
         ELSE MapPut(assets_to_bind, group_index,
                     BinderBind(BinderNew, loc_index, asset))
    /\ needs_update' = TRUE
    /\ modified' = TRUE
    /\ last_op' = "bind"
    /\ ret' = None
    /\ UNCHANGED <<cached_pipeline, cached_bindings, pipelines_created,
                   batchVars, textureVars, windowVars, panicked>>

\* Brush::needs_update
needs_update_get ==
    /\ ~panicked
    /\ ret' = Some(needs_update)
    /\ last_op' = "needs_update"
    /\ UNCHANGED <<assets_to_bind, cached_pipeline, cached_bindings, needs_update,
                   pipelines_created, modified, batchVars, textureVars, windowVars, panicked>>

\* update without cached_bindings.clear()
update_no_clear ==
    /\ ~panicked
    /\ pipelines_created < MaxPipelines
    /\ \E order \in IterOrders(DOMAIN assets_to_bind) :
         \* bgls after the sort, evaluated once per iteration order
         \E bgls \in {SortByGroup([k \in 1..Len(order) |->
                        <<order[k], BinderBake(assets_to_bind[order[k]]).bgl>>])} :
         LET n == Len(order)
             pipeline == [id |-> pipelines_created + 1,
                          bind_group_layouts |-> [k \in 1..n |-> bgls[k][2]],
                          \* which group each layout of the list was baked from
                          layout_groups |-> [k \in 1..n |-> bgls[k][1]]]
         IN /\ cached_bindings' = cached_bindings \o [k \in 1..n |->
                   <<order[k], BinderBake(assets_to_bind[order[k]]).bg>>]
            /\ cached_pipeline' = Some(pipeline)
    /\ pipelines_created' = pipelines_created + 1
    /\ needs_update' = FALSE
    /\ modified' = FALSE
    /\ last_op' = "update"
    /\ ret' = None
    /\ UNCHANGED <<assets_to_bind, batchVars, textureVars, windowVars, panicked>>

\* update that keeps a pipeline already cached
update_keep_pipeline ==
    /\ ~panicked
    /\ pipelines_created < MaxPipelines
    /\ \E order \in IterOrders(DOMAIN assets_to_bind) :
         \* bgls after the sort, evaluated once per iteration order
         \E bgls \in {SortByGroup([k \in 1..Len(order) |->
                        <<order[k], BinderBake(assets_to_bind[order[k]]).bgl>>])} :
         LET n == Len(order)
             pipeline == [id |-> pipelines_created + 1,
                          bind_group_layouts |-> [k \in 1..n |-> bgls[k][2]],
                          \* which group each layout of the list was baked from
                          layout_groups |-> [k \in 1..n |-> bgls[k][1]]]
         IN /\ cached_bindings' = [k \in 1..n |->
                   <<order[k], BinderBake(assets_to_bind[order[k]]).bg>>]
            /\ cached_pipeline' = IF cached_pipeline = None THEN Some(pipeline)
                                  ELSE cached_pipeline
    /\ pipelines_created' = pipelines_created + 1
    /\ needs_update' = FALSE
    /\ modified' = FALSE
    /\ last_op' = "update"
    /\ ret' = None
    /\ UNCHANGED <<assets_to_bind, batchVars, textureVars, windowVars, panicked>>

\* Brush::update
update ==
    /\ ~panicked
    /\ pipelines_created < MaxPipelines
    /\ \E order \in IterOrders(DOMAIN assets_to_bind) :
         \* bgls after the sort, evaluated once per iteration order
         \E bgls \in {SortByGroup([k \in 1..Len(order) |->
                        <<order[k], BinderBake(assets_to_bind[order[k]]).bgl>>])} :
         LET n == Len(order)
             pipeline == [id |-> pipelines_created + 1,
                          bind_group_layouts |-> [k \in 1..n |-> bgls[k][2]],
                          \* which group each layout of the list was baked from
                          layout_groups |-> [k \in 1..n |-> bgls[k][1]]]
         IN /\ cached_bindings' = [k \in 1..n |->
                   <<order[k], BinderBake(assets_to_bind[order[k]]).bg>>]
            /\ cached_pipeline' = Some(pipeline)
    /\ pipelines_created' = pipelines_created + 1
    /\ needs_update' = FALSE
    /\ modified' = FALSE
    /\ last_op' = "update"
    /\ ret' = None
    /\ UNCHANGED <<assets_to_bind, batchVars, textureVars, windowVars, panicked>>

\* Brush::get_pipeline : unwrap of the cached pipeline
get_pipeline ==
    /\ ~panicked
    /\ last_op' = "get_pipeline"
    /\ IF cached_pipeline = None
       THEN /\ panicked' = TRUE
            /\ ret' = None
       ELSE /\ ret' = Some(cached_pipeline[1])
            /\ UNCHANGED panicked
    /\ UNCHANGED <<assets_to_bind, cached_pipeline, cached_bindings, needs_update,
                   pipelines_created, modified, batchVars, textureVars, windowVars>>

\* Brush::get_bind_groups
get_bind_groups ==
    /\ ~panicked
    /\ ret' = Some(cached_bindings)
    /\ last_op' = "get_bind_groups"
    /\ UNCHANGED <<assets_to_bind, cached_pipeline, cached_bindings, needs_update,
                   pipelines_created, modified, batchVars, textureVars, windowVars, panicked>>

Bind == \E g \in Groups, l \in Locs, a \in Assets : bind(g, l, a)

NextBrush == Bind \/ needs_update_get \/ update \/ get_pipeline \/ get_bind_groups


\* ---------------------------------------------------------------- Texture
Dims == 1..MaxDim

\* enum TextureSize
TextureSizes ==
    {[kind |-> "D1", x |-> x, y |-> 1, z |-> 1] : x \in Dims}
    \cup {[kind |-> "D2", x |-> x, y |-> y, z |-> 1] : x \in Dims, y \in Dims}
    \cup {[kind |-> "D3", x |-> x, y |-> y, z |-> z] : x \in Dims, y \in Dims, z \in Dims}

\* TextureSize::get_size
get_size(size) ==
    IF size.kind = "D1" THEN [x |-> size.x, y |-> 1, z |-> 1]
    ELSE IF size.kind = "D2" THEN [x |-> size.x, y |-> size.y, z |-> 1]
    ELSE [x |-> size.x, y |-> size.y, z |-> size.z]

\* Origins handed to write_region_pixels
Origins == [x : 0..(MaxDim - 1), y : 0..(MaxDim - 1), z : 0..(MaxDim - 1)]

TextureInit ==
    /\ texture = None
    /\ write_queue = <<>>

\* Texture::new_internal
texture_new(size) ==
    /\ ~panicked
    /\ texture = None
    /\ LET sz == get_size(size)
       IN texture' = Some([desc |-> [size |-> size],
                           extent |-> [width |-> sz.x, height |-> sz.y,
                                       depth_or_array_layers |-> sz.z]])
    /\ UNCHANGED <<write_queue, batchVars, brushVars, windowVars, panicked>>

\* Texture::write_pixels
write_pixels ==
    /\ ~panicked
    /\ texture # None
    /\ Len(write_queue) < MaxQueue
    /\ LET size == get_size(texture[1].desc.size)
       IN write_queue' = Append(write_queue,
            [op |-> "write_pixels",
             origin |-> [x |-> 0, y |-> 0, z |-> 0],
             layout |-> [offset |-> 0, bytes_per_row |-> size.x * 4,
                         rows_per_image |-> size.y],
             extent |-> [width |-> size.x, height |-> size.y,
                         depth_or_array_layers |-> size.z]])
    /\ UNCHANGED <<texture, batchVars, brushVars, windowVars, panicked>>

\* Texture::write_region_pixels
write_region_pixels(origin) ==
    /\ ~panicked
    /\ texture # None
    /\ Len(write_queue) < MaxQueue
    /\ LET size == get_size(texture[1].desc.size)
       IN write_queue' = Append(write_queue,
            [op |-> "write_region_pixels",
             origin |-> [x |-> origin.x, y |-> origin.y, z |-> origin.z],
             layout |-> [offset |-> 0, bytes_per_row |-> size.x * 4,
                         rows_per_image |-> size.y],
             extent |-> [width |-> size.x, height |-> size.y,
                         depth_or_array_layers |-> size.z]])
    /\ UNCHANGED <<texture, batchVars, brushVars, windowVars, panicked>>

TextureNew == \E size \in TextureSizes : texture_new(size)
WriteRegionPixels == \E origin \in Origins : write_region_pixels(origin)

NextTexture == TextureNew \/ write_pixels \/ WriteRegionPixels

\* ---------------------------------------------------------------- Window
max_fps == 60

\* Events delivered to the closure of event_loop.run
Events ==
    { [kind |-> "WindowEvent", event |-> "CloseRequested", virtual_keycode |-> None],
      [kind |-> "WindowEvent", event |-> "KeyboardInput", virtual_keycode |-> None],
      [kind |-> "WindowEvent", event |-> "KeyboardInput", virtual_keycode |-> Some("Escape")],
      [kind |-> "WindowEvent", event |-> "KeyboardInput", virtual_keycode |-> Some("A")],
      [kind |-> "WindowEvent", event |-> "Resized", virtual_keycode |-> None],
      [kind |-> "MainEventsCleared", event |-> "", virtual_keycode |-> None] }

Returned(b) == [panic |-> FALSE, value |-> b]
Panic == [panic |-> TRUE, value |-> FALSE]

\* Window::exit_request
exit_request(ev) ==
    IF ev.kind = "WindowEvent"
    THEN IF ev.event = "CloseRequested" THEN Returned(TRUE)
         ELSE IF ev.event = "KeyboardInput"
              THEN IF ev.virtual_keycode = None THEN Panic      \* unwrap()
                   ELSE IF ev.virtual_keycode[1] = "Escape" THEN Returned(TRUE)
                   ELSE Returned(FALSE)
              ELSE Returned(FALSE)
    ELSE Returned(FALSE)

\* Window::create_and_run, up to user.startup
WindowInit ==
    /\ frame_count = 0
    /\ delta_time = 0
    /\ flow = "Poll"
    /\ last_ev = None
    /\ exit_ret = Returned(FALSE)
    /\ user_call = "startup"

\* Window::create_and_run, the closure run for one event
event_loop_run(ev, elapsed_time) ==
    /\ ~panicked
    /\ flow # "Exit"
    /\ frame_count < MaxFrames
    /\ frame_count' = frame_count + 1
    /\ last_ev' = Some(ev)
    /\ exit_ret' = exit_request(ev)
    /\ IF exit_request(ev).panic
       THEN /\ panicked' = TRUE
            /\ UNCHANGED <<flow, delta_time, user_call>>
       ELSE IF exit_request(ev).value
       THEN /\ flow' = "Exit"
            /\ user_call' = "cleanup"
            /\ UNCHANGED <<delta_time, panicked>>
       ELSE LET wait_time ==
                    IF max_fps > 0 /\ 1000 \div max_fps >= elapsed_time
                    THEN 1000 \div max_fps - elapsed_time
                    ELSE 0
            IN /\ user_call' = "process_render"
               /\ delta_time' = wait_time
               /\ flow' = "WaitUntil"
               /\ UNCHANGED panicked
    /\ UNCHANGED <<batchVars, brushVars, textureVars>>

EventLoopRun == \E ev \in Events, elapsed_time \in 0..MaxElapsed : event_loop_run(ev, elapsed_time)

NextWindow == EventLoopRun

Init ==
    /\ BatchInit
    /\ BrushInit
    /\ TextureInit
    /\ WindowInit
    /\ panicked = FALSE

SpecBatch == Init /\ [][NextBatch]_vars
SpecBrush == Init /\ [][NextBrush]_vars
SpecTexture == Init /\ [][NextTexture]_vars
SpecWindow == Init /\ [][NextWindow]_vars

\* The four components share no state: each is checked under its own
\* specification, Spec is their interleaving.
Next == NextBatch \/ NextBrush \/ NextTexture \/ NextWindow
Spec == Init /\ [][Next]_vars

\* ---------------------------------------------------------------- properties
SquarePattern == <<0, 1, 2, 2, 1, 3>>
TrianglePattern == <<0, 1, 2>>

PatternOf(kind) == IF kind = "triangle" THEN TrianglePattern ELSE SquarePattern
VertexCountOf(kind) == IF kind = "triangle" THEN 3 ELSE 4

\* C1: the indices appended by each add_triangle / add_square call refer to
\* exactly the vertices appended by that same call (a triangle's three indices
\* to its own three vertices in order, a square's six to its own four corners),
\* whatever shapes were added before it.
C1_IndicesReferToOwnVertices ==
    \A k \in 1..Len(calls) :
        LET c == calls[k]
            pat == PatternOf(c.kind)
        IN \A j \in 1..Len(pat) : indices[c.ifirst + j - 1] = c.vfirst + pat[j]

\* C9: every value in the index list is smaller than the number of vertices
\* in the batch.
C9_IndicesInRange ==
    \A i \in 1..Len(indices) : indices[i] < Len(vertices)

\* C5: add_triangle appends exactly 3 vertices and 3 indices, add_square
\* exactly 4 vertices and 6 indices, neither changes, removes or reorders what
\* is already in the batch, and bake_buffers hands over all vertices and all
\* indices in insertion order.
C5_Accumulates ==
    [][ /\ (calls' # calls =>
              LET kind == calls'[Len(calls')].kind
              IN /\ Len(calls') = Len(calls) + 1
                 /\ Len(vertices') = Len(vertices) + VertexCountOf(kind)
                 /\ Len(indices') = Len(indices) + Len(PatternOf(kind))
                 /\ SubSeq(vertices', 1, Len(vertices)) = vertices
                 /\ SubSeq(indices', 1, Len(indices)) = indices)
        /\ (shape_buffer' # shape_buffer =>
              /\ shape_buffer'[1].vertex_buffer = vertices
              /\ shape_buffer'[1].index_buffer.data = indices
              /\ vertices' = vertices
              /\ indices' = indices) ]_vars

\* C5 witness: a batch holding both a triangle and a square has been baked.
C5_Witness ==
    /\ shape_buffer # None
    /\ \E i, j \in 1..Len(calls) :
          calls[i].kind = "triangle" /\ calls[j].kind = "square"
    /\ Len(shape_buffer[1].vertex_buffer) >= 7

\* C2: an update creates a new pipeline and new bind groups only if a bind has
\* been called since the previous update (or no update has happened yet); an
\* update with no intervening bind leaves the cached pipeline and the cached
\* bind groups as they are.
C2_RebuildOnlyWhenBindingsChange ==
    [][ (~modified /\ last_op' = "update") =>
            /\ pipelines_created' = pipelines_created
            /\ cached_pipeline' = cached_pipeline
            /\ cached_bindings' = cached_bindings ]_vars

Getters == {"needs_update", "get_pipeline", "get_bind_groups"}

\* C3: needs_update is true exactly when the brush has been modified since the
\* GPU data was last updated: true right after from_source and after every
\* bind, false after every update, and left alone by needs_update,
\* get_pipeline and get_bind_groups.
C3_NeedsUpdateTracksModification ==
    [][ /\ (last_op = "from_source" => needs_update)
        /\ (last_op' = "bind" => needs_update')
        /\ (last_op' = "update" => ~needs_update')
        /\ (last_op' \in Getters => needs_update' = needs_update)
        /\ needs_update' = modified' ]_vars

\* C3 witness: a getter ran on a brush that was updated and then bound again.
C3_Witness ==
    /\ last_op \in Getters
    /\ needs_update
    /\ cached_pipeline # None

\* C7: whenever needs_update is false, a cached pipeline exists and
\* get_bind_groups holds exactly one bind group per bound group index (none
\* missing, none duplicated, none left over from an earlier update), each
\* tagged with the index of the group it was baked from.
C7_BindGroupsMatchBindings ==
    ~needs_update =>
        /\ cached_pipeline # None
        /\ Len(cached_bindings) = Cardinality(DOMAIN assets_to_bind)
        /\ {cached_bindings[k][1] : k \in 1..Len(cached_bindings)}
              = DOMAIN assets_to_bind
        /\ \A k \in 1..Len(cached_bindings) :
              /\ cached_bindings[k][1] \in DOMAIN assets_to_bind
              /\ cached_bindings[k][2]
                    = BinderBake(assets_to_bind[cached_bindings[k][1]]).bg

\* C7 witness: a second update ran after further binds, two groups are bound.
C7_Witness ==
    /\ ~needs_update
    /\ pipelines_created >= 2
    /\ Len(cached_bindings) >= 2

\* C8: after update, the bind-group layout of group g sits at position g of
\* the pipeline layout's bind_group_layouts list, for every set of bound group
\* indices, and the list is ordered ascending by group index.
C8_LayoutAtGroupPosition ==
    cached_pipeline # None =>
        LET groups == cached_pipeline[1].layout_groups
        IN /\ \A k \in 1..Len(groups) : groups[k] = k - 1
           /\ \A k \in 1..(Len(groups) - 1) : groups[k] < groups[k + 1]

\* C10: get_pipeline panics exactly when update has never been called; after
\* the first update it returns the pipeline built by the most recent update,
\* also when a later bind has set needs_update again.
C10_GetPipeline ==
    last_op = "get_pipeline" =>
        /\ panicked <=> pipelines_created = 0
        /\ ~panicked =>
              /\ ret = cached_pipeline
              /\ ret[1].id = pipelines_created

\* C10 witness: get_pipeline returned after two updates and a later bind.
C10_Witness ==
    /\ last_op = "get_pipeline"
    /\ ~panicked
    /\ needs_update
    /\ pipelines_created >= 2

InsideTexture(origin, extent) ==
    /\ origin.x < extent.width
    /\ origin.y < extent.height
    /\ origin.z < extent.depth_or_array_layers

\* C4: for every texture size and every origin inside the texture, the region
\* write_region_pixels queues (origin plus copy extent) lies within the
\* texture's bounds in every dimension, and for a non-zero origin it is
\* smaller than the whole texture.
C4_RegionWithinTexture ==
    \A k \in 1..Len(write_queue) :
        LET w == write_queue[k]
            t == texture[1].extent
        IN (w.op = "write_region_pixels" /\ InsideTexture(w.origin, t)) =>
              /\ w.origin.x + w.extent.width <= t.width
              /\ w.origin.y + w.extent.height <= t.height
              /\ w.origin.z + w.extent.depth_or_array_layers
                    <= t.depth_or_array_layers
              /\ (w.origin # [x |-> 0, y |-> 0, z |-> 0] => w.extent # t)

\* C6: for every event, also a keyboard event without a virtual key code,
\* exit_request returns a boolean without panicking, true exactly when the
\* event is a window CloseRequested event or a window KeyboardInput event
\* whose key is Escape.
C6_ExitRequestTotal ==
    last_ev # None =>
        LET ev == last_ev[1]
        IN /\ ~exit_ret.panic
           /\ exit_ret.value <=>
                 /\ ev.kind = "WindowEvent"
                 /\ \/ ev.event = "CloseRequested"
                    \/ /\ ev.event = "KeyboardInput"
                       /\ ev.virtual_keycode = Some("Escape")

====
